---- MODULE Spec2Model ----
(***************************************************************************)
(* The procedural initial-condition generator of galaxy-sim                *)
(* (src/src/initialize.rs): create_galaxies, elliptical, spiral,           *)
(* create_bulge_particle and create_arm_particle, as a state machine.      *)
(*                                                                         *)
(* f32 values are fixed-point integers in thousandths (Unit); the f32      *)
(* values that are not numbers (NaN, infinity) are the values NaN and Inf. *)
(* The stream of SmallRng::seed_from_u64(42) is a fixed cyclic sequence    *)
(* over four sample values of [0, 1) in which every window of four draws   *)
(* occurs; the place in it where the seed starts is not known and is       *)
(* chosen in Init.                                                         *)
(*                                                                         *)
(* Two more state machines share the module: the event loop of state.rs    *)
(* driving Render::init and Render::render of render.rs (RenderSpec), and  *)
(* CameraController::process_events of camera.rs (CameraSpec). Each of the *)
(* three specifications leaves the variables of the other two at rest.     *)
(***************************************************************************)
EXTENDS Integers, Sequences, FiniteSets, TLC

(* ------------------------------ bounds -------------------------------- *)

\* sim_params.num_galaxies ranges over 0..MaxGalaxies
MaxGalaxies == 2
\* sim_params.num_particles ranges over 0..MaxParticles
MaxParticles == 3
\* the retry cap a capped rejection loop is compared with
AttemptCap == 10
\* Render::render is called at most MaxFrames times
MaxFrames == 64
\* at most MaxHeld keys are down at a time
MaxHeld == 2

(* ------------------------- numbers and vectors ------------------------ *)

\* one f32 unit in fixed point: 1.0 is Unit
Unit == 1000

\* f32 NaN and +infinity
NaN == 0 - 2000000000
Inf == 0 + 2000000000

Abs(a) == IF a < 0 THEN 0 - a ELSE a

\* f32 division of finite values, rounded toward zero
Div(a, b) == IF (a < 0) = (b < 0) THEN Abs(a) \div Abs(b) ELSE 0 - (Abs(a) \div Abs(b))

\* f32 product of two fixed-point values
Mul(a, b) == Div(a * b, Unit)

RECURSIVE SqrtSearch(_, _, _)
SqrtSearch(n, lo, hi) ==
  IF lo >= hi THEN lo
  ELSE LET mid == (lo + hi + 1) \div 2
       IN  IF mid * mid <= n THEN SqrtSearch(n, mid, hi) ELSE SqrtSearch(n, lo, mid - 1)

\* f32::sqrt on a plain integer: the floor of the square root, NaN below zero
ISqrt(n) == IF n < 0 THEN NaN ELSE SqrtSearch(n, 0, 46340)

Zero3 == <<0, 0, 0>>
NaN3 == <<NaN, NaN, NaN>>
UnitZ == <<0, 0, 1>>

IsFinite3(v) == v[1] # NaN /\ v[2] # NaN /\ v[3] # NaN

VAdd(a, b) ==
  IF IsFinite3(a) /\ IsFinite3(b) THEN <<a[1] + b[1], a[2] + b[2], a[3] + b[3]>> ELSE NaN3

VSub(a, b) ==
  IF IsFinite3(a) /\ IsFinite3(b) THEN <<a[1] - b[1], a[2] - b[2], a[3] - b[3]>> ELSE NaN3

VNeg(a) == IF IsFinite3(a) THEN <<0 - a[1], 0 - a[2], 0 - a[3]>> ELSE NaN3

\* Vector3 * f32
VScale(a, s) ==
  IF IsFinite3(a) /\ s # NaN /\ s # Inf
  THEN <<Mul(a[1], s), Mul(a[2], s), Mul(a[3], s)>>
  ELSE NaN3

Dot(a, b) == a[1] * b[1] + a[2] * b[2] + a[3] * b[3]

\* cgmath cross product; b is a vector of plain integers (unit_z)
Cross(a, b) ==
  <<a[2] * b[3] - a[3] * b[2], a[3] * b[1] - a[1] * b[3], a[1] * b[2] - a[2] * b[1]>>

\* InnerSpace::magnitude
Magnitude(v) == IF IsFinite3(v) THEN ISqrt(Dot(v, v)) ELSE NaN

\* v.magnitude() <= bound and v.magnitude() >= bound, compared on the squares;
\* a comparison with a value that is not a number is false
MagnitudeLe(v, bound) == IsFinite3(v) /\ Dot(v, v) <= bound * bound
MagnitudeGe(v, bound) == IsFinite3(v) /\ Dot(v, v) >= bound * bound

\* InnerSpace::normalize: v / v.magnitude(); 0/0 is NaN in every component
Normalize(v) ==
  IF ~IsFinite3(v) THEN NaN3
  ELSE LET m == Magnitude(v)
       IN  IF m = 0 THEN NaN3
           ELSE <<Div(v[1] * Unit, m), Div(v[2] * Unit, m), Div(v[3] * Unit, m)>>

\* cos and sin of k * 15 degrees, in thousandths
CosTable ==
  <<1000, 966, 866, 707, 500, 259, 0, -259, -500, -707, -866, -966,
    -1000, -966, -866, -707, -500, -259, 0, 259, 500, 707, 866, 966>>
Cos15(k) == CosTable[(k % 24) + 1]
Sin15(k) == CosTable[((k + 18) % 24) + 1]

\* PI in thousandths of a radian, per 15 degrees: PI / 12
PiMilli == 3142

(* --------------------------- program constants ------------------------ *)

\* SimParams::default (lib.rs): gravity in millionths, calibrate (passed as the
\* softening) in millionths, lengths and speeds in thousandths, mass in units
DefaultGravity == 1
DefaultCalibrate == 100
DefaultCentralMass == 1500000
DefaultDistance == 500
DefaultGalaxyVelocity == 300

\* elliptical: shape constants and rejection bounds
BulgeFraction == 400
BulgeScaleRadius == 150
DiskScaleRadius == 300
DiskScaleHeight == 20
MaxRadius == 600
MinRadius == 20
BulgeVariation == 150
DiskVariation == 50
DiskVariationZ == 10

\* spiral: SpiralGalaxyParams::default and the constants of spiral
SpiralBulgeFraction == 200
SpiralSize == 200
SpiralWidth == 25
SpiralLength == 4
BulgeStd == 100
Width == 400
SpiralMaxRadius == 300
SpiralMinRadius == 20
ParticleMass == 1

(* ------------------------- the random source -------------------------- *)

\* the values of [0, 1) that rng.gen::<f32>() yields in the model, in thousandths
SampleValues == <<0, 10, 500, 999>>

\* the cyclic stream of the generator, as indices into SampleValues
StreamIndex ==
  <<
     0, 0, 0, 0, 1, 0, 0, 0, 2, 0, 0, 0, 3, 0, 0, 1, 1, 0, 0, 1, 2, 0, 0, 1, 3, 0, 0, 2, 1, 0, 0, 2,
     2, 0, 0, 2, 3, 0, 0, 3, 1, 0, 0, 3, 2, 0, 0, 3, 3, 0, 1, 0, 1, 0, 2, 0, 1, 0, 3, 0, 1, 1, 1, 0,
     1, 1, 2, 0, 1, 1, 3, 0, 1, 2, 1, 0, 1, 2, 2, 0, 1, 2, 3, 0, 1, 3, 1, 0, 1, 3, 2, 0, 1, 3, 3, 0,
     2, 0, 2, 0, 3, 0, 2, 1, 1, 0, 2, 1, 2, 0, 2, 1, 3, 0, 2, 2, 1, 0, 2, 2, 2, 0, 2, 2, 3, 0, 2, 3,
     1, 0, 2, 3, 2, 0, 2, 3, 3, 0, 3, 0, 3, 1, 1, 0, 3, 1, 2, 0, 3, 1, 3, 0, 3, 2, 1, 0, 3, 2, 2, 0,
     3, 2, 3, 0, 3, 3, 1, 0, 3, 3, 2, 0, 3, 3, 3, 1, 1, 1, 1, 2, 1, 1, 1, 3, 1, 1, 2, 2, 1, 1, 2, 3,
     1, 1, 3, 2, 1, 1, 3, 3, 1, 2, 1, 2, 1, 3, 1, 2, 2, 2, 1, 2, 2, 3, 1, 2, 3, 2, 1, 2, 3, 3, 1, 3,
     1, 3, 2, 2, 1, 3, 2, 3, 1, 3, 3, 2, 1, 3, 3, 3, 2, 2, 2, 2, 3, 2, 2, 3, 3, 2, 3, 2, 3, 3, 3, 3
  >>

StreamPeriod == Len(StreamIndex)

\* the value the generator in state s yields
RngValue(s) == SampleValues[StreamIndex[(s % StreamPeriod) + 1] + 1]

\* the generator's state after n draws
RngAdvance(s, n) == (s + n) % StreamPeriod

\* f32::ln, negated: -ln(u); -ln(0) is +infinity
NegLn(u) ==
  CASE u = 0 -> Inf
    [] u = 10 -> 4605
    [] u = 500 -> 693
    [] u = 999 -> 1

\* (-u.ln()).sqrt()
SqrtNegLn(u) ==
  CASE u = 0 -> Inf
    [] u = 10 -> 2146
    [] u = 500 -> 833
    [] u = 999 -> 32

\* (u * 2.0 * PI).cos() and .sin()
CosTheta(u) ==
  CASE u = 0 -> 1000
    [] u = 10 -> 998
    [] u = 500 -> -1000
    [] u = 999 -> 1000
SinTheta(u) ==
  CASE u = 0 -> 0
    [] u = 10 -> 63
    [] u = 500 -> 0
    [] u = 999 -> -6

\* phi = (2.0 * v - 1.0).acos(): phi.cos() is 2v - 1, phi.sin() is sqrt(1 - (2v - 1)^2)
CosPhi(v) == 2 * v - Unit
SinPhi(v) == ISqrt(Unit * Unit - CosPhi(v) * CosPhi(v))

\* the standard normal deviate a Normal sample is built from, as a function of
\* the generator's output
StdNormal(u) ==
  CASE u = 0 -> -5000
    [] u = 10 -> -2326
    [] u = 500 -> 0
    [] u = 999 -> 3090

\* Normal::new(0.0, std).sample(rng)
NormalSample(std, u) == Mul(std, StdNormal(u))

(* --------------------------- galaxy layout ---------------------------- *)

\* theta = (2.0 * PI) / num_galaxies * i, in units of 15 degrees
LayoutTheta(num_galaxies, i) == Div(24 * i, num_galaxies)

\* (theta.sin(), theta.cos(), 0): the direction from the origin to galaxy i
RadialDir(num_galaxies, i) ==
  <<Sin15(LayoutTheta(num_galaxies, i)), Cos15(LayoutTheta(num_galaxies, i)), 0>>

\* center of galaxy i
GalaxyCenter(p, i) ==
  IF p.num_galaxies > 1
  THEN <<Mul(RadialDir(p.num_galaxies, i)[1], p.distance_between_galaxies),
         Mul(RadialDir(p.num_galaxies, i)[2], p.distance_between_galaxies),
         0>>
  ELSE Zero3

\* a bulk velocity along the radial direction, away from the origin
MutGalaxyVelocityOutward(p, i) ==
  IF p.num_galaxies > 1
  THEN <<Mul(RadialDir(p.num_galaxies, i)[1], p.galaxy_velocity),
         Mul(RadialDir(p.num_galaxies, i)[2], p.galaxy_velocity),
         0>>
  ELSE <<p.galaxy_velocity, 0, 0>>

\* bulk velocity of galaxy i
GalaxyVelocity(p, i) ==
  IF p.num_galaxies > 1
  THEN <<0 - Mul(RadialDir(p.num_galaxies, i)[1], p.galaxy_velocity),
         0 - Mul(RadialDir(p.num_galaxies, i)[2], p.galaxy_velocity),
         0>>
  ELSE <<p.galaxy_velocity, 0, 0>>

(* ----------------------------- particles ------------------------------ *)

\* the central particle left at the origin instead of the galaxy's center
MutCentralAtOrigin(c, v, central_mass) ==
  [pos |-> Zero3, vel |-> v, acc |-> Zero3, mass |-> central_mass]

\* the first particle of a galaxy
CentralParticle(c, v, central_mass) ==
  [pos |-> c, vel |-> v, acc |-> Zero3, mass |-> central_mass]

\* a sampled particle whose mass is left zeroed
MutSampledNoMass(final_pos, vel, mass) ==
  [pos |-> final_pos, vel |-> vel, acc |-> Zero3, mass |-> 0]

\* a sampled particle whose acc field is filled with the velocity
MutSampledAccFromVel(final_pos, vel, mass) ==
  [pos |-> final_pos, vel |-> vel, acc |-> vel, mass |-> mass]

\* a sampled particle
SampledParticle(final_pos, vel, mass) ==
  [pos |-> final_pos, vel |-> vel, acc |-> Zero3, mass |-> mass]

(* ----------------------------- elliptical ----------------------------- *)

\* r = -scale_radius * u.ln()
SampleRadius(scale_radius, u) ==
  IF NegLn(u) = Inf THEN Inf ELSE Mul(scale_radius, NegLn(u))

\* one pass of the bulge loop: the position drawn from (u1, u2, u3); a position with
\* an infinite radius has no finite magnitude and is NaN3 here
BulgeSample(u1, u2, u3) ==
  LET r == SampleRadius(BulgeScaleRadius, u1)
  IN  IF r = Inf THEN NaN3
      ELSE <<Mul(Mul(r, SinPhi(u3)), CosTheta(u2)),
             Mul(Mul(r, SinPhi(u3)), SinTheta(u2)),
             Mul(r, CosPhi(u3))>>

\* the bulge loop's exit test
BulgeAccept(pos) == MagnitudeLe(pos, MaxRadius)

\* one pass of the disk loop: the position drawn from (u1, u2, u3, u4)
DiskSample(u1, u2, u3, u4) ==
  LET r == SampleRadius(DiskScaleRadius, u1)
  IN  IF r = Inf \/ SqrtNegLn(u4) = Inf THEN NaN3
      ELSE <<Mul(r, CosTheta(u2)),
             Mul(r, SinTheta(u2)),
             Mul(Mul(DiskScaleHeight, 2 * u3 - Unit), SqrtNegLn(u4))>>

\* the disk loop's exit test without its lower bound
MutDiskAcceptNoMin(pos) == MagnitudeLe(pos, MaxRadius)

\* the disk loop's exit test with its two bounds exchanged: no sample passes
MutDiskAcceptSwapped(pos) == MagnitudeLe(pos, MinRadius) /\ MagnitudeGe(pos, MaxRadius)

\* the disk loop's exit test
DiskAccept(pos) == MagnitudeLe(pos, MaxRadius) /\ MagnitudeGe(pos, MinRadius)

\* rotation_dir turned the other way
MutRotationDirClockwise(relative_pos) == Normalize(<<relative_pos[2], 0 - relative_pos[1], 0>>)

\* rotation_dir of the elliptical velocity
RotationDir(relative_pos) == Normalize(<<0 - relative_pos[2], relative_pos[1], 0>>)

\* rotation_speed: sqrt(gravity * central_mass * d^2 / (dist_sq * sqrt(dist_sq)))
RotationSpeed(gravity, central_mass, softening, distance) ==
  LET dist_sq == distance * distance + softening
      root == ISqrt(dist_sq)
  IN  IF root = NaN \/ root = 0 THEN NaN
      ELSE ISqrt(Div(gravity * central_mass * Div(distance * distance * Unit, dist_sq), root))

\* the random motion added to the orbital velocity
Variation(bulge, u1, u2, u3) ==
  IF bulge
  THEN <<Mul(u1, BulgeVariation) - BulgeVariation \div 2,
         Mul(u2, BulgeVariation) - BulgeVariation \div 2,
         Mul(u3, BulgeVariation) - BulgeVariation \div 2>>
  ELSE <<Mul(u1, DiskVariation) - DiskVariation \div 2,
         Mul(u2, DiskVariation) - DiskVariation \div 2,
         Mul(u3, DiskVariationZ) - DiskVariationZ \div 2>>

\* vel of an elliptical particle
EllipticalVel(p, relative_pos, bulge, u1, u2, u3, v) ==
  VAdd(VAdd(VScale(RotationDir(relative_pos),
                   RotationSpeed(p.gravity, p.central_mass, p.calibrate,
                                 Magnitude(relative_pos))),
            Variation(bulge, u1, u2, u3)),
       v)

(* ------------------------------- spiral ------------------------------- *)

\* one pass of the loop of create_bulge_particle: the position drawn
SpiralBulgeSample(u1, u2, u3, galaxy_center) ==
  VAdd(<<NormalSample(BulgeStd, u1),
         NormalSample(BulgeStd, u2),
         Mul(NormalSample(BulgeStd, u3), Width)>>,
       galaxy_center)

\* the exit test of the loop of create_bulge_particle without its lower bound
MutSpiralBulgeAcceptNoMin(pos, galaxy_center) ==
  MagnitudeLe(VSub(pos, galaxy_center), SpiralMaxRadius)

\* the exit test of the loop of create_bulge_particle
SpiralBulgeAccept(pos, galaxy_center) ==
  /\ MagnitudeLe(VSub(pos, galaxy_center), SpiralMaxRadius)
  /\ MagnitudeGe(VSub(pos, galaxy_center), SpiralMinRadius)

\* (pos - galaxy_center).cross(Vector3::unit_z()).normalize()
SpiralDir(pos, galaxy_center) == Normalize(Cross(VSub(pos, galaxy_center), UnitZ))

\* speed = (gravity / (pos - galaxy_center).magnitude()).sqrt()
OrbitSpeed(gravity, distance) ==
  IF distance = NaN THEN NaN
  ELSE IF distance = 0 THEN Inf
  ELSE ISqrt(Div(gravity * Unit, distance))

\* vel of a spiral particle
SpiralVel(pos, gravity, galaxy_center, galaxy_velocity) ==
  VAdd(VScale(SpiralDir(pos, galaxy_center),
              OrbitSpeed(gravity, Magnitude(VSub(pos, galaxy_center)))),
       galaxy_velocity)

\* theta of arm particle a, in units of 15 degrees:
\* a * (spiral_length * PI / (num_particles * 0.8))
ArmTheta(a, num_particles) == Div(a * SpiralLength * 15, num_particles)

\* r = max(spiral_size * theta.sqrt(), 1.0 * bulge_std)
ArmRadius(a, num_particles) ==
  LET theta == Div(ArmTheta(a, num_particles) * PiMilli, 12)
      r == Mul(SpiralSize, ISqrt(theta * Unit))
  IN  IF r >= BulgeStd THEN r ELSE BulgeStd

\* arm_theta without the turn by PI for the odd indices: one arm only
MutArmAngleOneArm(a, num_particles) == ArmTheta(a, num_particles)

\* arm_theta = theta + if a % 2.0 == 0.0 { 0.0 } else { PI }
ArmAngle(a, num_particles) ==
  ArmTheta(a, num_particles) + (IF a % 2 = 0 THEN 0 ELSE 12)

\* pos of arm particle a, drawn from (u1, u2)
ArmSample(a, num_particles, u1, u2, galaxy_center) ==
  LET arm_deviation == NormalSample(SpiralWidth, u1)
      r == ArmRadius(a, num_particles)
  IN  VAdd(<<Mul(r + arm_deviation, Cos15(ArmAngle(a, num_particles))),
             Mul(r + arm_deviation, Sin15(ArmAngle(a, num_particles))),
             Mul(NormalSample(SpiralWidth, u2), Width)>>,
           galaxy_center)

(* ------------------------------- state -------------------------------- *)

VARIABLES
  galaxy_type,    \* argument of create_galaxies: "Elliptical" or "Spiral"
  sim_params,     \* argument of create_galaxies: the SimParams
  seed_state,     \* the generator state that seed_from_u64(42) yields
  rng,            \* the state of the SmallRng of the running call
  pc,             \* where the running call stands
  particles,      \* the Vec<Particle> under construction
  i,              \* galaxy index of the loop of create_galaxies
  k,              \* loop variable of elliptical / spiral (1..num_particles)
  center,         \* center of galaxy i
  velocity,       \* bulk velocity of galaxy i
  is_bulge,       \* elliptical: the class of the particle being sampled
  relative_pos,   \* elliptical: the position the rejection loop accepted
  attempts,       \* history: passes the rejection loop being run has made, counted
                  \* up to AttemptCap + 1
  returned,       \* the Vecs the calls made so far returned, in order
  origin,         \* history: for each particle pushed by the last call, the galaxy
                  \* it belongs to, its class and the orbital direction used
  layout,         \* history: center and velocity of each galaxy of the last call
  example,        \* state.rs: the Option<Render> of the event loop, "None" or "Some"
  exited,         \* state.rs: target.exit() has been called
  frame_num,      \* Render.frame_num
  particle_buffers,      \* Render.particle_buffers: for each of the two buffers, the
                         \* number of compute passes before the one that last wrote
                         \* it, plus one; 0 for the data it was created with
  particle_bind_groups,  \* Render.particle_bind_groups: for each group the index of
                         \* the buffer at binding 1 and of the buffer at binding 2
  last_pass,      \* history: the buffers the last call of Render::render used
  movement,       \* CameraController.movement
  handled,        \* the value the last call of process_events returned
  held,           \* the keys that are down
  last_event,     \* history: the event of the last call of process_events
  last_keyboard,  \* history: the most recent keyboard event
  last_code,      \* history: the most recent keyboard event that carries a key code
  before          \* history: movement before the last call of process_events

gen_vars ==
  <<galaxy_type, sim_params, seed_state, rng, pc, particles, i, k, center, velocity,
    is_bulge, relative_pos, attempts, returned, origin, layout>>

render_vars ==
  <<example, exited, frame_num, particle_buffers, particle_bind_groups, last_pass>>

camera_vars == <<movement, handled, held, last_event, last_keyboard, last_code, before>>

vars == <<gen_vars, render_vars, camera_vars>>

\* no event: the value of a history variable before the first event
NoEvent == [kind |-> "None", state |-> "None", physical_key |-> "None"]

\* the event loop has not started: there is no Render
RenderIdle ==
  /\ example = "None"
  /\ exited = FALSE
  /\ frame_num = 0
  /\ particle_buffers = <<>>
  /\ particle_bind_groups = <<>>
  /\ last_pass = <<>>

\* CameraController::init: movement is Movement::None; no event has been processed
CameraIdle ==
  /\ movement = "None"
  /\ handled = FALSE
  /\ held = {}
  /\ last_event = NoEvent
  /\ last_keyboard = NoEvent
  /\ last_code = NoEvent
  /\ before = "None"

GalaxyTypes == {"Elliptical", "Spiral"}

\* the parameter sets the calls are made with
ParamSets ==
  [num_particles : 0..MaxParticles,
   num_galaxies : 0..MaxGalaxies,
   gravity : {DefaultGravity},
   calibrate : {DefaultCalibrate},
   central_mass : {DefaultCentralMass},
   distance_between_galaxies : {DefaultDistance, 0},
   galaxy_velocity : {DefaultGalaxyVelocity}]

\* a generator that is not seeded again by the call: it goes on from where it is
MutNotReseeded(seed) == rng

\* SmallRng::seed_from_u64(seed): the state the seed stands for
SeedFromU64(seed) == seed_state

Init ==
  /\ galaxy_type \in GalaxyTypes
  /\ sim_params \in ParamSets
  /\ seed_state \in 0..(StreamPeriod - 1)
  /\ rng = 0
  /\ pc = "idle"
  /\ particles = <<>>
  /\ i = 0
  /\ k = 0
  /\ center = Zero3
  /\ velocity = Zero3
  /\ is_bulge = FALSE
  /\ relative_pos = Zero3
  /\ attempts = 0
  /\ returned = <<>>
  /\ origin = <<>>
  /\ layout = <<>>
  /\ RenderIdle
  /\ CameraIdle

\* the j-th draw from now (j = 0 is the next one)
Draw(j) == RngValue(rng + j)

\* the history of passes is kept up to one past AttemptCap
CountPass(n) == IF n > AttemptCap THEN n ELSE n + 1

\* the loop written over 1..=num_particles
MutInclusiveRange(n, num_particles) == n <= num_particles

\* for _ in 1..num_particles: whether the loop variable n is still in the range
InParticleRange(n, num_particles) == n < num_particles

(* ------------------------------ actions ------------------------------- *)

\* a call of create_galaxies: the generator is seeded and the Vec created.
\* The caller makes two calls with the same arguments.
CreateGalaxies ==
  /\ pc = "idle"
  /\ Len(returned) < 2
  /\ rng' = SeedFromU64(42)
  /\ particles' = <<>>
  /\ origin' = <<>>
  /\ layout' = <<>>
  /\ i' = 0
  /\ attempts' = 0
  /\ pc' = "galaxy_loop"
  /\ UNCHANGED <<galaxy_type, sim_params, seed_state, k, center, velocity, is_bulge,
                 relative_pos, returned>>
  /\ UNCHANGED <<render_vars, camera_vars>>

\* one pass of the loop of create_galaxies up to the call of elliptical / spiral,
\* and the push of the central particle that call starts with
BeginGalaxy ==
  /\ pc = "galaxy_loop"
  /\ i < sim_params.num_galaxies
  /\ center' = GalaxyCenter(sim_params, i)
  /\ velocity' = GalaxyVelocity(sim_params, i)
  /\ layout' = Append(layout, [center |-> center', velocity |-> velocity'])
  /\ particles' = Append(particles, CentralParticle(center', velocity', sim_params.central_mass))
  /\ origin' = Append(origin, [gal |-> i, class |-> "central", dir |-> Zero3])
  /\ k' = 1
  /\ pc' = IF galaxy_type = "Elliptical" THEN "elliptical_loop" ELSE "spiral_loop"
  /\ UNCHANGED attempts
  /\ UNCHANGED <<galaxy_type, sim_params, seed_state, rng, i, is_bulge, relative_pos,
                 returned>>
  /\ UNCHANGED <<render_vars, camera_vars>>

\* elliptical / spiral returns: the loop over 1..num_particles is over
EndGalaxy ==
  /\ pc \in {"elliptical_loop", "spiral_loop"}
  /\ ~InParticleRange(k, sim_params.num_particles)
  /\ i' = i + 1
  /\ pc' = "galaxy_loop"
  /\ UNCHANGED attempts
  /\ UNCHANGED <<galaxy_type, sim_params, seed_state, rng, particles, k, center, velocity,
                 is_bulge, relative_pos, returned, origin, layout>>
  /\ UNCHANGED <<render_vars, camera_vars>>

\* create_galaxies returning the Vec as soon as one galaxy is finished
MutReturnAfterFirstGalaxy ==
  /\ pc = "galaxy_loop"
  /\ (i >= 1 \/ i >= sim_params.num_galaxies)
  /\ returned' = Append(returned, particles)
  /\ particles' = <<>>
  /\ pc' = "idle"
  /\ UNCHANGED attempts
  /\ UNCHANGED <<galaxy_type, sim_params, seed_state, rng, i, k, center, velocity,
                 is_bulge, relative_pos, origin, layout>>
  /\ UNCHANGED <<render_vars, camera_vars>>

\* create_galaxies returns the Vec
Return ==
  /\ pc = "galaxy_loop"
  /\ i >= sim_params.num_galaxies
  /\ returned' = Append(returned, particles)
  /\ particles' = <<>>
  /\ pc' = "idle"
  /\ UNCHANGED attempts
  /\ UNCHANGED <<galaxy_type, sim_params, seed_state, rng, i, k, center, velocity,
                 is_bulge, relative_pos, origin, layout>>
  /\ UNCHANGED <<render_vars, camera_vars>>

\* elliptical: is_bulge = rng.gen::<f32>() < bulge_fraction
EllipticalClassify ==
  /\ pc = "elliptical_loop"
  /\ InParticleRange(k, sim_params.num_particles)
  /\ is_bulge' = (Draw(0) < BulgeFraction)
  /\ rng' = RngAdvance(rng, 1)
  /\ pc' = IF is_bulge' THEN "bulge_loop" ELSE "disk_loop"
  /\ attempts' = 0
  /\ UNCHANGED <<galaxy_type, sim_params, seed_state, particles, i, k, center, velocity,
                 relative_pos, returned, origin, layout>>
  /\ UNCHANGED <<render_vars, camera_vars>>

\* elliptical: one pass of the bulge loop
BulgeAttempt ==
  /\ pc = "bulge_loop"
  /\ rng' = RngAdvance(rng, 3)
  /\ IF BulgeAccept(BulgeSample(Draw(0), Draw(1), Draw(2)))
     THEN /\ relative_pos' = BulgeSample(Draw(0), Draw(1), Draw(2))
          /\ pc' = "velocity"
     ELSE UNCHANGED <<relative_pos, pc>>
  /\ attempts' = CountPass(attempts)
  /\ UNCHANGED <<galaxy_type, sim_params, seed_state, particles, i, k, center, velocity,
                 is_bulge, returned, origin, layout>>
  /\ UNCHANGED <<render_vars, camera_vars>>

\* elliptical: one pass of the disk loop
DiskAttempt ==
  /\ pc = "disk_loop"
  /\ rng' = RngAdvance(rng, 4)
  /\ IF DiskAccept(DiskSample(Draw(0), Draw(1), Draw(2), Draw(3)))
     THEN /\ relative_pos' = DiskSample(Draw(0), Draw(1), Draw(2), Draw(3))
          /\ pc' = "velocity"
     ELSE UNCHANGED <<relative_pos, pc>>
  /\ attempts' = CountPass(attempts)
  /\ UNCHANGED <<galaxy_type, sim_params, seed_state, particles, i, k, center, velocity,
                 is_bulge, returned, origin, layout>>
  /\ UNCHANGED <<render_vars, camera_vars>>

\* elliptical: final position, velocity and mass of the sampled particle, and its push
EllipticalPush ==
  /\ pc = "velocity"
  /\ rng' = RngAdvance(rng, 3)
  /\ particles' =
       Append(particles,
              SampledParticle(VAdd(relative_pos, center),
                              EllipticalVel(sim_params, relative_pos, is_bulge,
                                            Draw(0), Draw(1), Draw(2), velocity),
                              ParticleMass))
  /\ origin' = Append(origin, [gal |-> i,
                               class |-> IF is_bulge THEN "bulge" ELSE "disk",
                               dir |-> RotationDir(relative_pos)])
  /\ k' = k + 1
  /\ pc' = "elliptical_loop"
  /\ UNCHANGED attempts
  /\ UNCHANGED <<galaxy_type, sim_params, seed_state, i, center, velocity, is_bulge,
                 relative_pos, returned, layout>>
  /\ UNCHANGED <<render_vars, camera_vars>>

\* spiral: rng.gen::<f32>() < 0.2 chooses create_bulge_particle or create_arm_particle
SpiralClassify ==
  /\ pc = "spiral_loop"
  /\ InParticleRange(k, sim_params.num_particles)
  /\ rng' = RngAdvance(rng, 1)
  /\ pc' = IF Draw(0) < SpiralBulgeFraction THEN "spiral_bulge_loop" ELSE "arm"
  /\ attempts' = 0
  /\ UNCHANGED <<galaxy_type, sim_params, seed_state, particles, i, k, center, velocity,
                 is_bulge, relative_pos, returned, origin, layout>>
  /\ UNCHANGED <<render_vars, camera_vars>>

\* create_bulge_particle: one pass of its loop; on exit the velocity, the mass and
\* the push in spiral
SpiralBulgeAttempt ==
  /\ pc = "spiral_bulge_loop"
  /\ rng' = RngAdvance(rng, 3)
  /\ LET pos == SpiralBulgeSample(Draw(0), Draw(1), Draw(2), center)
     IN  IF SpiralBulgeAccept(pos, center)
         THEN /\ particles' =
                   Append(particles,
                          SampledParticle(pos,
                                          SpiralVel(pos, sim_params.gravity, center, velocity),
                                          ParticleMass))
              /\ origin' = Append(origin, [gal |-> i, class |-> "bulge",
                                           dir |-> SpiralDir(pos, center)])
              /\ k' = k + 1
              /\ pc' = "spiral_loop"
         ELSE UNCHANGED <<particles, origin, k, pc>>
  /\ attempts' = CountPass(attempts)
  /\ UNCHANGED <<galaxy_type, sim_params, seed_state, i, center, velocity, is_bulge,
                 relative_pos, returned, layout>>
  /\ UNCHANGED <<render_vars, camera_vars>>

\* create_arm_particle for the arm index k - 1, and the push in spiral
ArmParticle ==
  /\ pc = "arm"
  /\ rng' = RngAdvance(rng, 2)
  /\ LET pos == ArmSample(k - 1, sim_params.num_particles, Draw(0), Draw(1), center)
     IN  /\ particles' =
              Append(particles,
                     SampledParticle(pos,
                                     SpiralVel(pos, sim_params.gravity, center, velocity),
                                     ParticleMass))
         /\ origin' = Append(origin, [gal |-> i, class |-> "arm",
                                      dir |-> SpiralDir(pos, center)])
  /\ k' = k + 1
  /\ pc' = "spiral_loop"
  /\ UNCHANGED attempts
  /\ UNCHANGED <<galaxy_type, sim_params, seed_state, i, center, velocity, is_bulge,
                 relative_pos, returned, layout>>
  /\ UNCHANGED <<render_vars, camera_vars>>

Next ==
  \/ CreateGalaxies
  \/ BeginGalaxy
  \/ EndGalaxy
  \/ Return
  \/ EllipticalClassify
  \/ BulgeAttempt
  \/ DiskAttempt
  \/ EllipticalPush
  \/ SpiralClassify
  \/ SpiralBulgeAttempt
  \/ ArmParticle

Spec == Init /\ [][Next]_vars

\* the values of pc
ControlStates ==
  {"idle", "galaxy_loop", "elliptical_loop", "spiral_loop", "bulge_loop", "disk_loop",
   "velocity", "spiral_bulge_loop", "arm"}

\* the caller has made its calls and the last one has returned: nothing is left to run
Halted == pc = "idle" /\ Len(returned) >= 2

\* the thread takes a step. Every step of Next changes pc or rng, and some step of
\* Next is possible in every state that is not Halted, so on the behaviours of Spec
\* a step of Running that changes <<pc, rng>> is a step of Next.
Running == ~Halted /\ pc' \in ControlStates /\ rng' \in 0..(StreamPeriod - 1)

\* create_galaxies is synchronous code on one thread: it does not stop while it has
\* a step to take
FairSpec == Spec /\ WF_<<pc, rng>>(Running)

(* ------------------ the particle record and its consumer -------------- *)

\* f32 fields of one Particle (lib.rs): pos, vel, acc of three each, and mass
ParticleFloats == 10

\* a #[repr(C)] Particle as bytemuck sees it: its f32 fields in declaration order
ParticleRecord(p) ==
  <<p.pos[1], p.pos[2], p.pos[3], p.vel[1], p.vel[2], p.vel[3],
    p.acc[1], p.acc[2], p.acc[3], p.mass>>

\* bytemuck::cast_slice on a slice of Particle: the records one after the other
CastSlice(v) ==
  [j \in 1..(ParticleFloats * Len(v)) |->
     ParticleRecord(v[((j - 1) \div ParticleFloats) + 1])[((j - 1) % ParticleFloats) + 1]]

\* the per-instance vertex buffer layout of the render pipeline (render.rs), in
\* f32 units: array_stride 7 * 4 bytes, and the offsets vertex_attr_array gives
\* the attributes 0 => Float32x3, 1 => Float32x3, 2 => Float32
ArrayStrideFloats == 7
PositionOffset == 0
VelocityOffset == 3
MassOffset == 6

\* the attributes the vertex stage is fed for instance n (from 0) of a buffer
InstanceAttributes(buffer, n) ==
  LET at(o) == buffer[n * ArrayStrideFloats + o + 1]
  IN  [position |-> <<at(PositionOffset), at(PositionOffset + 1), at(PositionOffset + 2)>>,
       velocity |-> <<at(VelocityOffset), at(VelocityOffset + 1), at(VelocityOffset + 2)>>,
       mass |-> at(MassOffset)]

(* ------------------------- the render loop ---------------------------- *)

\* the generator is not running and no call has been made
GeneratorIdle ==
  /\ galaxy_type = "Spiral"
  /\ sim_params = [num_galaxies |-> 1, num_particles |-> 1,
                   distance_between_galaxies |-> DefaultDistance,
                   central_mass |-> DefaultCentralMass]
  /\ seed_state = 0
  /\ rng = 0
  /\ pc = "idle"
  /\ particles = <<>>
  /\ i = 0
  /\ k = 0
  /\ center = Zero3
  /\ velocity = Zero3
  /\ is_bulge = FALSE
  /\ relative_pos = Zero3
  /\ attempts = 0
  /\ returned = <<>>
  /\ origin = <<>>
  /\ layout = <<>>

MutBindGroupSameBuffer(j) == [read_only |-> j, read_write |-> j]

\* Render::init, bind group j: binding 1 (a read-only storage buffer in the
\* compute bind group layout) is particle_buffers[j], binding 2 (read-write) is
\* particle_buffers[(j + 1) % 2]; buffers are numbered from 0 as in the source
BindGroup(j) == [read_only |-> j, read_write |-> (j + 1) % 2]

\* the compute pass dispatched with a bind group: the buffer at binding 2 is
\* overwritten with the output of that pass, the other buffer is left as it was
DispatchWorkgroups(buffers, group, pass) ==
  [buffers EXCEPT ![group.read_write + 1] = pass]

\* Render::init: two buffers created from the same data, the two bind groups,
\* frame_num 0
RenderInit ==
  /\ example' = "Some"
  /\ frame_num' = 0
  /\ particle_buffers' = <<0, 0>>
  /\ particle_bind_groups' = <<BindGroup(0), BindGroup(1)>>

\* Render::render: the compute pass with bind group frame_num % 2, the render
\* pass with vertex buffer (frame_num + 1) % 2, then frame_num += 1
RenderRender ==
  LET group == particle_bind_groups[(frame_num % 2) + 1]
      computed == DispatchWorkgroups(particle_buffers, group, frame_num + 1)
      vertex_buffer == (frame_num + 1) % 2
  IN  /\ particle_buffers' = computed
      /\ frame_num' = frame_num + 1
      /\ last_pass' = [frame |-> frame_num,
                       read |-> group.read_only,
                       read_data |-> particle_buffers[group.read_only + 1],
                       written |-> group.read_write,
                       drawn |-> vertex_buffer,
                       drawn_data |-> computed[vertex_buffer + 1]]

\* Event::NewEvents(StartCause::Init), delivered once when the loop starts
NewEventsInit ==
  /\ ~exited
  /\ example = "None"
  /\ RenderInit
  /\ UNCHANGED <<exited, last_pass>>
  /\ UNCHANGED <<gen_vars, camera_vars>>

\* WindowEvent::RedrawRequested: nothing to draw before Render::init
RedrawRequested ==
  /\ ~exited
  /\ frame_num < MaxFrames
  /\ IF example = "None"
       THEN UNCHANGED <<frame_num, particle_buffers, last_pass>>
       ELSE RenderRender
  /\ UNCHANGED <<example, exited, particle_bind_groups>>
  /\ UNCHANGED <<gen_vars, camera_vars>>

\* WindowEvent::CloseRequested, or Escape pressed: target.exit()
CloseRequested ==
  /\ ~exited
  /\ exited' = TRUE
  /\ UNCHANGED <<example, frame_num, particle_buffers, particle_bind_groups, last_pass>>
  /\ UNCHANGED <<gen_vars, camera_vars>>

RenderStart == GeneratorIdle /\ RenderIdle /\ CameraIdle

RenderNext ==
  \/ NewEventsInit
  \/ RedrawRequested
  \/ CloseRequested

RenderSpec == RenderStart /\ [][RenderNext]_vars

(* ------------------------ the camera controller ----------------------- *)

\* the key codes of the keys process_events names, and one it does not name
MappedKeys == {"KeyW", "KeyA", "KeyS", "KeyD", "KeyQ", "KeyE", "KeyH", "KeyJ", "KeyK", "KeyL"}
KeyCodes == MappedKeys \cup {"Escape"}

\* WindowEvent::KeyboardInput: the state of the key and its physical key, a
\* PhysicalKey::Code(key code) or PhysicalKey::Unidentified
KeyboardEvents ==
  [kind : {"KeyboardInput"}, state : {"Pressed", "Released"},
   physical_key : KeyCodes \cup {"Unidentified"}]

\* window events that are not keyboard input
OtherEvents ==
  [kind : {"CursorMoved", "RedrawRequested"}, state : {"None"}, physical_key : {"None"}]

MutKeyMovementIgnoreState(keycode, is_pressed) ==
  CASE keycode = "KeyW" -> "Forward"
    [] keycode = "KeyA" -> "RotateLeft"
    [] keycode = "KeyS" -> "Backward"
    [] keycode = "KeyD" -> "RotateRight"
    [] keycode = "KeyQ" -> "RotateUp"
    [] keycode = "KeyE" -> "RotateDown"
    [] keycode = "KeyH" -> "MoveLeft"
    [] keycode = "KeyJ" -> "MoveDown"
    [] keycode = "KeyK" -> "MoveUp"
    [] keycode = "KeyL" -> "MoveRight"
    [] OTHER -> "None"

\* process_events: the match on the key code, each arm guarded by is_pressed
KeyMovement(keycode, is_pressed) ==
  CASE keycode = "KeyW" /\ is_pressed -> "Forward"
    [] keycode = "KeyA" /\ is_pressed -> "RotateLeft"
    [] keycode = "KeyS" /\ is_pressed -> "Backward"
    [] keycode = "KeyD" /\ is_pressed -> "RotateRight"
    [] keycode = "KeyQ" /\ is_pressed -> "RotateUp"
    [] keycode = "KeyE" /\ is_pressed -> "RotateDown"
    [] keycode = "KeyH" /\ is_pressed -> "MoveLeft"
    [] keycode = "KeyJ" /\ is_pressed -> "MoveDown"
    [] keycode = "KeyK" /\ is_pressed -> "MoveUp"
    [] keycode = "KeyL" /\ is_pressed -> "MoveRight"
    [] OTHER -> "None"

\* CameraController::process_events on a controller whose movement is m: the
\* outer match takes only a KeyboardInput whose physical key is a
\* PhysicalKey::Code; every other event falls to `_ => false`
ProcessEvents(m, event) ==
  IF event.kind = "KeyboardInput" /\ event.physical_key \in KeyCodes
    THEN [movement |-> KeyMovement(event.physical_key, event.state = "Pressed"),
          result |-> TRUE]
    ELSE [movement |-> m, result |-> FALSE]

\* the event is handed to process_events
Deliver(event) ==
  LET out == ProcessEvents(movement, event)
  IN  /\ movement' = out.movement
      /\ handled' = out.result
      /\ before' = movement
      /\ last_event' = event
      /\ last_keyboard' = IF event.kind = "KeyboardInput" THEN event ELSE last_keyboard
      /\ last_code' = IF event.kind = "KeyboardInput" /\ event.physical_key \in KeyCodes
                        THEN event ELSE last_code

\* a key goes down, or a key that is down repeats
KeyPressed ==
  \E key \in KeyCodes :
    /\ Cardinality(held \cup {key}) <= MaxHeld
    /\ held' = held \cup {key}
    /\ Deliver([kind |-> "KeyboardInput", state |-> "Pressed", physical_key |-> key])
    /\ UNCHANGED <<gen_vars, render_vars>>

\* a key goes up (a key that went down while the window had no focus included)
KeyReleased ==
  \E key \in KeyCodes :
    /\ held' = held \ {key}
    /\ Deliver([kind |-> "KeyboardInput", state |-> "Released", physical_key |-> key])
    /\ UNCHANGED <<gen_vars, render_vars>>

\* a key the platform has no key code for goes down or up
UnidentifiedKey ==
  \E state \in {"Pressed", "Released"} :
    /\ Deliver([kind |-> "KeyboardInput", state |-> state, physical_key |-> "Unidentified"])
    /\ UNCHANGED held
    /\ UNCHANGED <<gen_vars, render_vars>>

\* any other window event
OtherWindowEvent ==
  \E event \in OtherEvents :
    /\ Deliver(event)
    /\ UNCHANGED held
    /\ UNCHANGED <<gen_vars, render_vars>>

CameraStart == GeneratorIdle /\ RenderIdle /\ CameraIdle

CameraNext ==
  \/ KeyPressed
  \/ KeyReleased
  \/ UnidentifiedKey
  \/ OtherWindowEvent

CameraSpec == CameraStart /\ [][CameraNext]_vars

(* ------------------------------- claims ------------------------------- *)

\* a call has returned and no other is running: origin and layout are its history
Returned == pc = "idle" /\ returned # <<>>

\* the Vec the last call returned
Out == returned[Len(returned)]

\* the particle sequence origin describes: the Vec under construction, or the
\* Vec just returned
Built == IF pc = "idle" THEN (IF returned = <<>> THEN <<>> ELSE Out) ELSE particles

\* offset of particle n of Built from the center of its galaxy
Offset(n) == VSub(Built[n].pos, layout[origin[n].gal + 1].center)

\* index in Built of the first particle pushed for galaxy g
BlockStart(g) ==
  CHOOSE n \in 1..Len(origin) :
    origin[n].gal = g /\ \A m \in 1..(n - 1) : origin[m].gal # g

\* the parameters section 7 of the specification calls valid
ValidParams ==
  /\ sim_params.num_galaxies >= 1
  /\ sim_params.distance_between_galaxies > 0
  /\ sim_params.central_mass > 0

\* the particles of galaxy g are those at the indices g*n+1 .. (g+1)*n of the Vec
GalaxyMajor ==
  /\ Len(Out) = sim_params.num_particles * sim_params.num_galaxies
  /\ \A g \in 0..(sim_params.num_galaxies - 1) :
       \A n \in (g * sim_params.num_particles + 1)..((g + 1) * sim_params.num_particles) :
         origin[n].gal = g

\* C1 (as stated): for all valid parameters create_galaxies returns exactly
\* num_particles * num_galaxies particles, galaxy g at [g*n, (g+1)*n).
\* Fails for num_particles = 0: every galaxy still gets its central particle.
C1_CountAllParams == (Returned /\ ValidParams) => GalaxyMajor

\* C1 (amended): for num_particles >= 1 create_galaxies returns exactly
\* num_particles * num_galaxies particles, laid out galaxy-major.
C1_CountGalaxyMajor == (Returned /\ sim_params.num_particles >= 1) => GalaxyMajor

C1_Witness ==
  /\ Returned
  /\ sim_params.num_galaxies = 2
  /\ sim_params.num_particles = 3
  /\ Len(Out) = 6

\* C2: for every galaxy begun, in both morphologies, the first particle of its block
\* has mass central_mass, the position the layout computed as the galaxy's center
\* (the origin when num_galaxies = 1) and the galaxy's bulk velocity.
C2_CentralParticle ==
  \A g \in 0..(Len(layout) - 1) :
    /\ Built[BlockStart(g)].mass = sim_params.central_mass
    /\ Built[BlockStart(g)].pos = layout[g + 1].center
    /\ Built[BlockStart(g)].vel = layout[g + 1].velocity
    /\ sim_params.num_galaxies = 1 => Built[BlockStart(g)].pos = <<0, 0, 0>>
    /\ sim_params.num_particles >= 1 => BlockStart(g) = g * sim_params.num_particles + 1

C2_Witness ==
  /\ Returned
  /\ galaxy_type = "Spiral"
  /\ sim_params.num_galaxies = 2
  /\ sim_params.distance_between_galaxies > 0
  /\ sim_params.num_particles = 3
  /\ Out[4].pos # <<0, 0, 0>>
  /\ Out[4].mass = sim_params.central_mass

\* C3: two calls with the same galaxy type and parameters (and the one seed the
\* code uses) return the same particle sequence.
C3_Deterministic == Len(returned) = 2 => returned[1] = returned[2]

C3_Witness ==
  /\ Len(returned) = 2
  /\ Len(returned[2]) >= 4
  /\ \E n \in 1..Len(origin) : origin[n].class # "central"

\* C4 (as stated): for invalid parameters (num_galaxies = 0, a non-positive radius or
\* mass) the generator fails with a configuration error: it returns no particle
\* sequence. The code validates nothing and returns.
C4_InvalidRejected == ~ValidParams => returned = <<>>

\* C5: in an elliptical galaxy every disk particle's offset from the galaxy center
\* has 0.02 <= |offset| <= 0.6 and every bulge particle's has |offset| <= 0.6, and
\* the rejection loops exit only with such a sample.
C5_EllipticalBounds ==
  galaxy_type = "Elliptical" =>
    /\ \A n \in 1..Len(origin) :
         /\ origin[n].class = "disk" =>
              (MagnitudeLe(Offset(n), 600) /\ MagnitudeGe(Offset(n), 20))
         /\ origin[n].class = "bulge" => MagnitudeLe(Offset(n), 600)
    /\ pc = "velocity" =>
         /\ MagnitudeLe(relative_pos, 600)
         /\ ~is_bulge => MagnitudeGe(relative_pos, 20)

C5_Witness ==
  /\ Returned
  /\ galaxy_type = "Elliptical"
  /\ sim_params.distance_between_galaxies > 0
  /\ \E n \in 1..Len(origin) : origin[n].class = "disk" /\ origin[n].gal = 1
  /\ \E n \in 1..Len(origin) : origin[n].class = "bulge"

\* C6: every particle that is not the first of its galaxy's block has mass 1.0.
C6_UnitMass ==
  \A n \in 1..Len(origin) : origin[n].class # "central" => Built[n].mass = 1

C6_Witness ==
  /\ Returned
  /\ \E n \in 1..Len(origin) : origin[n].class = "arm"
  /\ \E n \in 1..Len(origin) : origin[n].class = "bulge"

\* C7: every particle, central or not, of either morphology, has acceleration (0, 0, 0).
C7_ZeroAcceleration ==
  /\ \A n \in 1..Len(particles) : particles[n].acc = <<0, 0, 0>>
  /\ \A c \in 1..Len(returned) : \A n \in 1..Len(returned[c]) :
       returned[c][n].acc = <<0, 0, 0>>

C7_Witness ==
  /\ Returned
  /\ galaxy_type = "Elliptical"
  /\ \E n \in 1..Len(origin) : origin[n].class = "disk" /\ Out[n].vel # <<0, 0, 0>>
  /\ \E n \in 1..Len(origin) : origin[n].class = "central"

\* C8 (as stated): no two galaxy centers the layout computes coincide, for every
\* parameter set the generator accepts. The generator accepts
\* distance_between_galaxies = 0, which puts every center at the origin.
C8_CentersDistinct ==
  \A a, b \in 1..Len(layout) : a # b => layout[a].center # layout[b].center

\* C9: for num_galaxies = 2 the two centers are antipodal through the origin, the two
\* bulk velocities are antiparallel, and each bulk velocity is the negated radial
\* direction scaled by galaxy_velocity: it points from the center to the origin.
C9_LayoutSymmetry ==
  (sim_params.num_galaxies = 2 /\ Len(layout) = 2) =>
    /\ layout[2].center = VNeg(layout[1].center)
    /\ layout[2].velocity = VNeg(layout[1].velocity)
    /\ \A g \in 1..2 :
         /\ layout[g].velocity = VNeg(VScale(RadialDir(2, g - 1), sim_params.galaxy_velocity))
         /\ \A c \in 1..3 :
              layout[g].velocity[c] * sim_params.distance_between_galaxies
                = 0 - layout[g].center[c] * sim_params.galaxy_velocity

C9_Witness ==
  /\ sim_params.num_galaxies = 2
  /\ Len(layout) = 2
  /\ layout[2].center = <<0, -500, 0>>
  /\ layout[2].velocity = <<0, 300, 0>>

InPlane(v) == <<v[1], v[2]>>

\* C11 (as stated), for the spiral morphology: the offset of every bulge and arm
\* particle from its galaxy center has nonzero length and nonzero in-plane part, so
\* its orbital direction is never the normalization of a zero vector and its velocity
\* is a number. The exit test of create_bulge_particle bounds only the length of the
\* offset: an offset (0, 0, z) with 0.02 <= |z| <= 0.3 is accepted, its cross product
\* with unit_z is the zero vector, and the velocity is NaN.
C11_SpiralOffsetsNotDegenerate ==
  (galaxy_type = "Spiral" /\ ValidParams) =>
    \A n \in 1..Len(origin) :
      origin[n].class # "central" =>
        /\ Offset(n) # Zero3
        /\ InPlane(Offset(n)) # <<0, 0>>
        /\ IsFinite3(origin[n].dir)
        /\ IsFinite3(Built[n].vel)

\* the index create_arm_particle is called with for particle n of Built: the loop
\* variable of spiral (the particle's place in its galaxy's block) minus one
ArmIndex(n) == n - BlockStart(origin[n].gal) - 1

\* theta of the arm index a, in units of 15 degrees, as the claim gives it:
\* a * (armLength * pi) / (particleCount * 0.8) is a * armLength * 15 / particleCount
\* twelfths of pi
ClaimTheta(a) == (a * SpiralLength * 15) \div sim_params.num_particles

\* the angle the claim puts arm index a on: theta for even a, theta + pi for odd a
ClaimAngle(a) == ClaimTheta(a) + (IF a % 2 = 0 THEN 0 ELSE 12)

\* C12 (as stated): the in-plane offset of the arm particle with generation index a
\* is a non-negative multiple of (cos, sin) of theta (a even) or theta + pi (a odd).
\* Fails when the Gaussian deviation added to the radius is below minus the radius:
\* the multiple r + arm_deviation is negative and the particle lies on the other side.
C12_ArmNonNegativeMultiple ==
  \A n \in 1..Len(origin) :
    (origin[n].class = "arm" /\ ValidParams) =>
      \E m \in 0..(2 * Unit) :
        InPlane(Offset(n)) = <<Mul(m, Cos15(ClaimAngle(ArmIndex(n)))),
                               Mul(m, Sin15(ClaimAngle(ArmIndex(n))))>>

\* C12 (amended): the in-plane offset of the arm particle with index a (the loop
\* variable of spiral minus one) is (r + d) * (cos, sin) of theta (a even) or
\* theta + pi (a odd), theta = a * (armLength * pi) / (particleCount * 0.8),
\* r = max(armSize * sqrt(theta), bulgeStdDev) and d one Gaussian deviation of
\* standard deviation armWidth; the multiple r + d is negative when d < -r.
C12_ArmParity ==
  \A n \in 1..Len(origin) :
    origin[n].class = "arm" =>
      \E u \in {SampleValues[j] : j \in 1..Len(SampleValues)} :
        LET m == ArmRadius(ArmIndex(n), sim_params.num_particles)
                   + NormalSample(SpiralWidth, u)
        IN  /\ ArmRadius(ArmIndex(n), sim_params.num_particles) >= BulgeStd
            /\ InPlane(Offset(n)) = <<Mul(m, Cos15(ClaimAngle(ArmIndex(n)))),
                                      Mul(m, Sin15(ClaimAngle(ArmIndex(n))))>>

C12_Witness ==
  /\ Returned
  /\ galaxy_type = "Spiral"
  /\ \E n \in 1..Len(origin) :
       /\ origin[n].class = "arm"
       /\ origin[n].gal = 1
       /\ ArmIndex(n) % 2 = 1
       /\ InPlane(Offset(n)) # <<0, 0>>
  /\ \E n \in 1..Len(origin) :
       /\ origin[n].class = "arm"
       /\ ArmIndex(n) % 2 = 0
       /\ Offset(n)[1] > 0

\* C13: in a spiral galaxy every bulge particle's offset from its galaxy center has
\* 0.02 <= |offset| <= 0.3: the loop of create_bulge_particle exits only with such
\* a sample.
C13_SpiralBulgeBounds ==
  galaxy_type = "Spiral" =>
    \A n \in 1..Len(origin) :
      origin[n].class = "bulge" =>
        /\ MagnitudeGe(Offset(n), 20)
        /\ MagnitudeLe(Offset(n), 300)

C13_Witness ==
  /\ Returned
  /\ galaxy_type = "Spiral"
  /\ sim_params.distance_between_galaxies > 0
  /\ \E n \in 1..Len(origin) :
       /\ origin[n].class = "bulge"
       /\ origin[n].gal = 1
       /\ Offset(n)[1] # 0
       /\ Offset(n)[3] # 0

\* the control states in which a rejection loop is being run
RejectionLoops == {"bulge_loop", "disk_loop", "spiral_bulge_loop"}

\* C14 (as stated): every rejection loop makes at most a fixed maximum number of
\* attempts (AttemptCap here) and generation fails once the cap is exceeded. The
\* loops of elliptical and create_bulge_particle keep no count of their passes and
\* have no exit but an accepted sample: a pass that rejects is followed by another
\* pass, whatever the number of passes made, and create_galaxies has no failure to
\* return.
C14_RetryCapped == pc \in RejectionLoops => attempts <= AttemptCap

\* the number of particles of one galaxy's block
BlockLen == IF sim_params.num_particles = 0 THEN 1 ELSE sim_params.num_particles

\* the Vec v holds the block of every galaxy, each block complete: its central
\* particle first and its sampled particles after it
Complete(v) ==
  /\ Len(v) = sim_params.num_galaxies * BlockLen
  /\ \A n \in 1..Len(v) :
       IF (n - 1) % BlockLen = 0
       THEN v[n] = CentralParticle(GalaxyCenter(sim_params, (n - 1) \div BlockLen),
                                   GalaxyVelocity(sim_params, (n - 1) \div BlockLen),
                                   sim_params.central_mass)
       ELSE v[n].mass = ParticleMass

\* C15: the caller's view changes only by the return of a call whose loop over the
\* galaxies is over, and what it then receives is the whole Vec under construction,
\* holding all blocks of all galaxies; before that step it sees nothing of the Vec.
C15_NoPartialResult ==
  [][returned' # returned =>
       /\ pc = "galaxy_loop"
       /\ i = sim_params.num_galaxies
       /\ Complete(particles)
       /\ returned' = Append(returned, particles)]_vars

C15_Witness ==
  /\ Returned
  /\ Len(returned) = 2
  /\ sim_params.num_galaxies = 2
  /\ sim_params.num_particles = 3
  /\ Complete(Out)
  /\ \E n \in 1..Len(origin) : origin[n].gal = 1 /\ origin[n].class # "central"

\* how far a running call has come: the galaxy, then the particle of the galaxy,
\* then the place in the pass of the particle loop; bounded by the two loop bounds
Stage ==
  CASE pc \in {"elliptical_loop", "spiral_loop"} -> 0
    [] pc \in RejectionLoops \/ pc = "arm" -> 1
    [] pc = "velocity" -> 2
    [] OTHER -> 0
Progress ==
  i * (3 * (sim_params.num_particles + 2))
    + (IF pc = "galaxy_loop" THEN 0 ELSE 3 * k + Stage)

\* a pass of a rejection loop that rejects its sample
RejectedPass == pc \in RejectionLoops /\ pc' = pc

\* C17: under a fair random source (a stream in which every window of draws occurs)
\* every call of create_galaxies returns; and within a call every step that is not
\* a rejecting pass of a rejection loop moves the call forward in the bounded order
\* of its two counting loops, so only the rejection loops can run without end.
C17_Terminates ==
  /\ (pc # "idle") ~> (pc = "idle")
  /\ [][(pc # "idle" /\ pc' # "idle") =>
          /\ RejectedPass \/ Progress' > Progress
          /\ i' <= sim_params.num_galaxies
          /\ k' <= BlockLen]_vars

C17_Witness ==
  /\ pc = "idle"
  /\ Len(returned) = 2
  /\ attempts >= 3
  /\ sim_params.num_galaxies = 2
  /\ sim_params.num_particles = 3

\* C16 (as stated): the per-instance vertex layout consumes exactly the record the
\* generator produces: its stride is the 10 floats of a Particle, and for every
\* particle of a returned Vec, uploaded as cast_slice lays it out, the attributes of
\* its instance are its position, its velocity and its mass. The layout of render.rs
\* has a stride of 7 floats and takes the mass from the seventh: the record it
\* consumes is (pos, vel, mass), without the acceleration.
C16_ConsumerReadsRecord ==
  ValidParams =>
    \A c \in 1..Len(returned) :
      \A n \in 1..Len(returned[c]) :
        /\ ArrayStrideFloats = ParticleFloats
        /\ InstanceAttributes(CastSlice(returned[c]), n - 1)
             = [position |-> returned[c][n].pos,
                velocity |-> returned[c][n].vel,
                mass |-> returned[c][n].mass]

\* C18: the two particle buffers ping-pong. For the last call of Render::render,
\* made with frame_num = n: the compute pass read buffer n mod 2 and wrote buffer
\* (n+1) mod 2, a different buffer; the render pass drew from the buffer just
\* written, and saw the output of this frame's compute pass; frame_num is now
\* n + 1; and the buffer read held what the compute pass of frame n-1 wrote (for
\* n = 0, the data the buffers were created with).
C18_PingPong ==
  last_pass # <<>> =>
    /\ last_pass.read = last_pass.frame % 2
    /\ last_pass.written = (last_pass.frame + 1) % 2
    /\ last_pass.read # last_pass.written
    /\ last_pass.drawn = last_pass.written
    /\ last_pass.drawn_data = last_pass.frame + 1
    /\ frame_num = last_pass.frame + 1
    /\ last_pass.read_data = last_pass.frame

\* C18: a fourth frame (n = 3) has been rendered: it read buffer 1, which frame 2
\* wrote, and wrote and drew buffer 0
C18_Witness ==
  /\ last_pass # <<>>
  /\ last_pass.frame = 3
  /\ last_pass.read = 1
  /\ last_pass.read_data = 3
  /\ last_pass.written = 0
  /\ last_pass.drawn = 0
  /\ frame_num = 4

\* the movement each mapped key stands for
MappedMovement(key) ==
  CASE key = "KeyW" -> "Forward"
    [] key = "KeyS" -> "Backward"
    [] key = "KeyA" -> "RotateLeft"
    [] key = "KeyD" -> "RotateRight"
    [] key = "KeyQ" -> "RotateUp"
    [] key = "KeyE" -> "RotateDown"
    [] key = "KeyH" -> "MoveLeft"
    [] key = "KeyL" -> "MoveRight"
    [] key = "KeyK" -> "MoveUp"
    [] key = "KeyJ" -> "MoveDown"

\* the movement the claim gives a keyboard event: the mapped movement for a press
\* of a mapped key, None for a release and for any other key
ClaimMovement(event) ==
  IF event.state = "Pressed" /\ event.physical_key \in MappedKeys
    THEN MappedMovement(event.physical_key)
    ELSE "None"

\* C19 (as stated): movement is the claim's function of the most recent keyboard
\* event; process_events returned true if the last event was a keyboard event,
\* and otherwise returned false and left movement as it was.
C19_LastKeyboardEventDecides ==
  /\ last_keyboard # NoEvent => movement = ClaimMovement(last_keyboard)
  /\ last_event # NoEvent =>
       IF last_event.kind = "KeyboardInput"
         THEN handled = TRUE
         ELSE handled = FALSE /\ movement = before

\* C19 (amended): movement is the claim's function of the most recent keyboard
\* event that carries a key code (Movement::None before the first); process_events
\* returned true if the last event was such an event, and otherwise (a keyboard
\* event with an unidentified physical key included) returned false and left
\* movement as it was.
C19_LastKeyCodeEventDecides ==
  /\ movement = IF last_code = NoEvent THEN "None" ELSE ClaimMovement(last_code)
  /\ last_event # NoEvent =>
       IF last_event.kind = "KeyboardInput" /\ last_event.physical_key \in KeyCodes
         THEN handled = TRUE
         ELSE handled = FALSE /\ movement = before

\* C19: W is down and the camera was moving forward; the release of A, the last
\* event, has stopped it
C19_Witness ==
  /\ "KeyW" \in held
  /\ before = "Forward"
  /\ last_event = [kind |-> "KeyboardInput", state |-> "Released", physical_key |-> "KeyA"]
  /\ handled = TRUE
  /\ movement = "None"

====
